---- MODULE Spec2Model ----
(***************************************************************************)
(* A model of the chat Manager of vscode-chat (src/manager/index.ts): the  *)
(* registry of chat provider sessions, the token store and persistent      *)
(* store it reads, and its asynchronous operations, one action per         *)
(* synchronous stretch between two awaits.                                 *)
(***************************************************************************)
EXTENDS Integers, Sequences, FiniteSets, TLC

(***************************************************************************)
(* Bounds of the model.                                                    *)
(***************************************************************************)
\* Session objects (ChatProviderManager) that may ever be constructed.
MaxSessions == 3
\* VslsContactProvider instances that may ever be constructed.
MaxBridges == 3

(***************************************************************************)
(* Provider identifiers.  "ghost" stands for any id that                   *)
(* instantiateChatProvider does not support.  Undefined is the absent      *)
(* optional argument (undefined), which is falsy like the empty string.    *)
(***************************************************************************)
Supported == {"slack", "discord", "vsls"}
ProviderIds == Supported \cup {"ghost"}
Undefined == ""
Truthy(x) == x # Undefined

\* A stored token: absent, one the backend accepts, one it rejects.
NoToken == "none"
TokenStates == {NoToken, "valid", "invalid"}
HasToken(t) == t # NoToken

\* Lists of provider ids without repetition, of at most n elements.
NoDupSeqs(S, n) ==
  UNION {{s \in [1..k -> S] : \A a, b \in 1..k : a # b => s[a] # s[b]} : k \in 0..n}

\* The current-user records the store may hold at start.
InfoLists == {<<>>, <<"slack">>, <<"slack", "discord">>, <<"vsls", "slack">>}

\* The overlapping initializeToken calls and the arguments they are given.
TokCalls == {"t1", "t2"}
\* The overlapping initializeVslsContactProvider calls.
VcCalls == {"v1", "v2"}
NewProviderArgs == {Undefined, "discord", "ghost"}

VARIABLES
  token,               \* ConfigHelper's token store: provider -> token
  currentUserInfos,    \* store.getCurrentUserForAll(), as the providers' ids
  hasVsls,             \* hasVslsExtension()
  store,               \* per provider: users / channels / lastChannelId present
  isTokenInitialized,  \* Manager.isTokenInitialized
  chatProviders,       \* Manager.chatProviders: a Map, in insertion order
  nextSession,         \* identity given to the next ChatProviderManager
  destroyed,           \* session id -> number of destroy() calls on it
  viewProviders,       \* last provider list given to viewsManager.initialize
  tok,                 \* the initializeToken calls
  so,                  \* the signout call
  fan,                 \* the fan-out call (initializeProviders, ...ForAll)
  dispatch,            \* the last per-provider dispatch and what it returned
  bridges,             \* the VslsContactProvider instances constructed so far
  vslsContactProvider, \* Manager.vslsContactProvider: 0 (undefined) or an instance
  vc,                  \* the initializeVslsContactProvider calls
  query,               \* the last synchronous call and what it returned
  vt                   \* the validateToken call

vars == <<token, currentUserInfos, hasVsls, store, isTokenInitialized,
          chatProviders, nextSession, destroyed, viewProviders, tok, so,
          fan, dispatch, bridges, vslsContactProvider, vc, query, vt>>

\* What the token lifecycle (initializeToken, signout, clearAll) works on.
lifeVars == <<token, currentUserInfos, hasVsls, store, isTokenInitialized,
              chatProviders, nextSession, destroyed, viewProviders, tok, so>>
\* What it leaves alone.
sideVars == <<fan, dispatch, bridges, vslsContactProvider, vc, query, vt>>
bridgeVars == <<bridges, vslsContactProvider, vc>>
probeVars == <<query, vt>>

envVars == <<token, currentUserInfos, hasVsls, store>>

(***************************************************************************)
(* Array helpers.                                                          *)
(***************************************************************************)
\* Array.prototype.indexOf: the first position of x, 0 when absent.
IndexOf(s, x) ==
  IF \E i \in 1..Len(s) : s[i] = x
    THEN CHOOSE i \in 1..Len(s) : s[i] = x /\ \A j \in 1..(i - 1) : s[j] # x
    ELSE 0

\* Array.prototype.filter: the items of s at the positions kept, in their
\* original order.
FilterIdx(s, kept) ==
  LET nth(k) == CHOOSE i \in kept : Cardinality({j \in kept : j < i}) = k - 1
  IN [k \in 1..Cardinality(kept) |-> s[nth(k)]]

(***************************************************************************)
(* The Map chatProviders: a sequence of entries [provider, id, token] in   *)
(* insertion order, at most one per key.                                   *)
(***************************************************************************)
MapHas(m, k) == \E i \in 1..Len(m) : m[i].provider = k
MapGet(m, k) == m[CHOOSE i \in 1..Len(m) : m[i].provider = k]
MapKeys(m) == [i \in 1..Len(m) |-> m[i].provider]
MapSet(m, k, v) ==
  IF MapHas(m, k)
    THEN [i \in 1..Len(m) |-> IF m[i].provider = k THEN v ELSE m[i]]
    ELSE Append(m, v)
MapDelete(m, k) ==
  FilterIdx(m, {i \in 1..Len(m) : m[i].provider # k})

SessionIds == 1..MaxSessions

(***************************************************************************)
(* The collaborators, as far as the Manager uses them.                     *)
(***************************************************************************)
EmptyCache == [users |-> FALSE, channels |-> FALSE, lastChannelId |-> FALSE]
FullCache == [users |-> TRUE, channels |-> TRUE, lastChannelId |-> TRUE]

\* store.clearProviderState(provider): the provider's persisted cache is cleared.
ClearProviderState(st, provider) == [st EXCEPT ![provider] = EmptyCache]

\* What chatProvider.validateToken() answers for a token.
BackendAccepts(t) == t = "valid"

(***************************************************************************)
(* Manager.getEnabledProviders                                             *)
(***************************************************************************)
\* A faulty variant of GetEnabledProviders: the filter of lines 35-37 is left out.
GetEnabledProvidersUnfiltered(infos, vsls) ==
  IF vsls THEN Append(infos, "vsls") ELSE infos

GetEnabledProviders(infos, vsls) ==
  LET providers == IF vsls THEN Append(infos, "vsls") ELSE infos
  IN FilterIdx(providers,
       {pos \in 1..Len(providers) : IndexOf(providers, providers[pos]) = pos})

(***************************************************************************)
(* Manager.instantiateChatProvider / validateToken                         *)
(***************************************************************************)
\* instantiateChatProvider throws for a provider outside its switch.
InstantiateThrows(provider) == provider \notin Supported

\* validateToken(provider, token): what the caller gets.
ValidateToken(provider, t) ==
  IF InstantiateThrows(provider) THEN "unsupported"
  ELSE IF BackendAccepts(t) THEN "currentUser"
  ELSE "authenticationError"

(***************************************************************************)
(* Manager.initializeToken: TokStart runs the call up to its first await   *)
(* of ConfigHelper.getToken, TokResume runs from one await to the next or  *)
(* to the end.  getToken reads the store when it is called; the call gets  *)
(* that value (tokenRead) when it resumes.                                 *)
(***************************************************************************)
IdleTok == [pc |-> "idle", np |-> Undefined, list |-> <<>>, idx |-> 0,
            tokenRead |-> NoToken, clean |-> FALSE, stable |-> FALSE]

\* The call has returned (pc "done") or thrown (pc "threw"): its locals are gone.
Returned(rec, pc) ==
  [IdleTok EXCEPT !.pc = pc, !.np = rec.np, !.clean = rec.clean, !.stable = rec.stable]

\* A call with argument newProvider repeats the caller's last call: that one
\* ran to completion with the same argument, and neither the stores nor the
\* registry's sessions were disturbed since it began (clean).
Repeats(rec, newProvider) == rec.pc = "done" /\ rec.clean /\ rec.np = newProvider

\* The first position from k on holding a truthy provider (line 93).
NextTruthy(list, k) ==
  IF \E j \in k..Len(list) : Truthy(list[j])
    THEN CHOOSE j \in k..Len(list) :
           Truthy(list[j]) /\ \A h \in k..(j - 1) : ~Truthy(list[h])
    ELSE Len(list) + 1

\* A faulty variant of NeedsSession: the registry is not consulted, so a
\* provider that holds a session gets a new one.
NeedsSessionUnchecked(reg, provider) == TRUE

\* Lines 97-101: a session is constructed only for a provider without one.
NeedsSession(reg, provider) == ~MapHas(reg, provider)

\* initializeViewsManager: the registry's keys go to viewsManager.initialize.
InitializeViewsManager(reg) == MapKeys(reg)

\* The call i, in state rec, goes on with the loop at position k, the
\* registry being reg: it suspends at the next getToken or finishes.
TokLoop(i, rec, k, reg) ==
  LET j == NextTruthy(rec.list, k) IN
  IF j > Len(rec.list)
    THEN /\ viewProviders' = InitializeViewsManager(reg)
         /\ tok' = [tok EXCEPT ![i] = Returned(rec, "done")]
    ELSE /\ viewProviders' = viewProviders
         /\ tok' = [tok EXCEPT ![i] = [rec EXCEPT !.pc = "getToken", !.idx = j,
                                                  !.tokenRead = token[rec.list[j]]]]

TokStart(i, newProvider) ==
  /\ tok[i].pc \in {"idle", "done", "threw"}
  /\ LET enabled == GetEnabledProviders(currentUserInfos, hasVsls)
         list == IF Truthy(newProvider) THEN Append(enabled, newProvider) ELSE enabled
         rec == [IdleTok EXCEPT !.np = newProvider, !.list = list,
                                !.clean = TRUE, !.stable = Repeats(tok[i], newProvider)]
     IN TokLoop(i, rec, 1, chatProviders)
  /\ UNCHANGED <<envVars, isTokenInitialized, chatProviders, nextSession, destroyed, so>>
  /\ UNCHANGED sideVars

TokResume(i) ==
  /\ tok[i].pc = "getToken"
  /\ LET rec == tok[i]
         provider == rec.list[rec.idx]
         t == rec.tokenRead
     IN IF ~HasToken(t)
          THEN /\ TokLoop(i, rec, rec.idx + 1, chatProviders)
               /\ UNCHANGED <<isTokenInitialized, chatProviders, nextSession>>
        ELSE IF ~NeedsSession(chatProviders, provider)
          THEN /\ isTokenInitialized' = TRUE
               /\ TokLoop(i, rec, rec.idx + 1, chatProviders)
               /\ UNCHANGED <<chatProviders, nextSession>>
        ELSE IF InstantiateThrows(provider)
          THEN /\ tok' = [tok EXCEPT ![i] = Returned(rec, "threw")]
               /\ UNCHANGED <<isTokenInitialized, chatProviders, nextSession,
                              viewProviders>>
        ELSE /\ nextSession <= MaxSessions
             /\ chatProviders' = MapSet(chatProviders, provider,
                                   [provider |-> provider, id |-> nextSession, token |-> t])
             /\ nextSession' = nextSession + 1
             /\ isTokenInitialized' = TRUE
             /\ TokLoop(i, rec, rec.idx + 1, chatProviders')
  /\ UNCHANGED <<envVars, destroyed, so>>
  /\ UNCHANGED sideVars

(***************************************************************************)
(* Whatever disturbs the stores or removes sessions ends the stretch in    *)
(* which a repeated initializeToken call has nothing left to do.           *)
(***************************************************************************)
Unsettled(t) == [i \in TokCalls |-> [t[i] EXCEPT !.clean = FALSE, !.stable = FALSE]]

(***************************************************************************)
(* Manager.clearAll (synchronous)                                          *)
(***************************************************************************)
\* A faulty variant of IsNotVsls: vsls is cleared like the others.
IsNotVslsUnchecked(provider) == TRUE

\* Line 225: vsls is spared.
IsNotVsls(provider) == provider # "vsls"

\* A faulty variant of ClearAllFrom: the sessions are deleted from the
\* registry without destroy() being called on them.
ClearAllFromUndestroyed(keys, k, st) ==
  [st EXCEPT !.reg = FilterIdx(st.reg, {i \in 1..Len(st.reg) :
                                          ~IsNotVsls(st.reg[i].provider)})]

RECURSIVE ClearAllFrom(_, _, _)
\* The forEach of lines 224-236 from position k of the keys taken at line 222;
\* st holds the store, the registry and the sessions' destroy() counts.
ClearAllFrom(keys, k, st) ==
  IF k > Len(keys) THEN st
  ELSE LET provider == keys[k]
           cleared == [st EXCEPT !.store = ClearProviderState(st.store, provider)]
       IN IF ~IsNotVsls(provider) THEN ClearAllFrom(keys, k + 1, st)
          ELSE IF ~MapHas(cleared.reg, provider) THEN ClearAllFrom(keys, k + 1, cleared)
          ELSE ClearAllFrom(keys, k + 1,
                 [cleared EXCEPT
                    !.destroyed[MapGet(cleared.reg, provider).id] = @ + 1,
                    !.reg = MapDelete(cleared.reg, provider)])

\* A faulty variant of ClearAll: isTokenInitialized is left as it is.
ClearAllKeepsFlag ==
  LET enabledProviders == MapKeys(chatProviders)
      end == ClearAllFrom(enabledProviders, 1,
               [store |-> store, reg |-> chatProviders, destroyed |-> destroyed])
  IN /\ store' = end.store
     /\ destroyed' = end.destroyed
     /\ chatProviders' = end.reg
     /\ tok' = Unsettled(tok)
     /\ UNCHANGED <<token, currentUserInfos, hasVsls, nextSession, viewProviders, so,
                    isTokenInitialized>>
     /\ UNCHANGED sideVars

ClearAll ==
  LET enabledProviders == MapKeys(chatProviders)
      end == ClearAllFrom(enabledProviders, 1,
               [store |-> store, reg |-> chatProviders, destroyed |-> destroyed])
  IN /\ store' = end.store
     /\ destroyed' = end.destroyed
     /\ chatProviders' = end.reg
     /\ isTokenInitialized' = FALSE
     /\ tok' = Unsettled(tok)
     /\ UNCHANGED <<token, currentUserInfos, hasVsls, nextSession, viewProviders, so>>
     /\ UNCHANGED sideVars

(***************************************************************************)
(* Manager.clearOldWorkspace (synchronous)                                 *)
(***************************************************************************)
\* A faulty variant of ClearOldWorkspace: the caches of every provider are reset.
ClearOldWorkspaceAll(provider) ==
  /\ store[provider] # EmptyCache
  /\ store' = [p \in ProviderIds |-> EmptyCache]
  /\ query' = [op |-> "clearOldWorkspace", arg |-> provider, result |-> <<>>]
  /\ UNCHANGED <<token, currentUserInfos, hasVsls, isTokenInitialized,
                 chatProviders, nextSession, destroyed, viewProviders, tok, so>>
  /\ UNCHANGED <<fan, dispatch, bridgeVars, vt>>

\* Lines 243-245: updateUsers(provider, {}), updateChannels(provider, []),
\* updateLastChannelId(provider, undefined).
ClearOldWorkspace(provider) ==
  /\ store[provider] # EmptyCache
  /\ store' = [store EXCEPT ![provider] = EmptyCache]
  /\ query' = [op |-> "clearOldWorkspace", arg |-> provider, result |-> <<>>]
  /\ UNCHANGED <<token, currentUserInfos, hasVsls, isTokenInitialized,
                 chatProviders, nextSession, destroyed, viewProviders, tok, so>>
  /\ UNCHANGED <<fan, dispatch, bridgeVars, vt>>

(***************************************************************************)
(* Manager.signout: SignoutStart runs up to the first await of             *)
(* ConfigHelper.clearToken, SignoutResume from one await to the next or to *)
(* the end, where RESET_STORE is executed.                                 *)
(***************************************************************************)
IdleSo == [pc |-> "idle", list |-> <<>>, idx |-> 0, hasSignedOut |-> FALSE,
           clearedAny |-> FALSE, fired |-> 0]

\* A faulty variant of SignsOut: the token of vsls is cleared like the others.
SignsOutAll(providerName) == TRUE

\* Line 206: the token of every provider but vsls is cleared.
SignsOut(providerName) == providerName # "vsls"

NextSignedOut(list, k) ==
  IF \E j \in k..Len(list) : SignsOut(list[j])
    THEN CHOOSE j \in k..Len(list) :
           SignsOut(list[j]) /\ \A h \in k..(j - 1) : ~SignsOut(list[h])
    ELSE Len(list) + 1

\* Lines 212-217: RESET_STORE is executed when hasSignedOut.
ResetFires(hasSignedOut) == IF hasSignedOut THEN 1 ELSE 0

SoLoop(rec, k) ==
  LET j == NextSignedOut(rec.list, k) IN
  IF j > Len(rec.list)
    THEN [rec EXCEPT !.pc = "done", !.list = <<>>, !.idx = 0,
                     !.fired = ResetFires(rec.hasSignedOut)]
    ELSE [rec EXCEPT !.pc = "clearToken", !.idx = j]

SignoutStart ==
  /\ so.pc \in {"idle", "done"}
  /\ so' = SoLoop([IdleSo EXCEPT !.list = MapKeys(chatProviders)], 1)
  /\ UNCHANGED <<envVars, isTokenInitialized, chatProviders, nextSession, destroyed,
                 viewProviders, tok>>
  /\ UNCHANGED sideVars

SignoutResume ==
  /\ so.pc = "clearToken"
  /\ LET providerName == so.list[so.idx] IN
       /\ token' = [token EXCEPT ![providerName] = NoToken]
       /\ so' = SoLoop([so EXCEPT !.hasSignedOut = TRUE,
                                  !.clearedAny = @ \/ HasToken(token[providerName])],
                       so.idx + 1)
  /\ tok' = Unsettled(tok)
  /\ UNCHANGED <<currentUserInfos, hasVsls, store, isTokenInitialized,
                 chatProviders, nextSession, destroyed, viewProviders>>
  /\ UNCHANGED sideVars

(***************************************************************************)
(* The sessions' own work, seen from the Manager.                          *)
(***************************************************************************)
\* A registered session stores the users and channels it fetched.
SessionFillsStore(provider) ==
  /\ MapHas(chatProviders, provider)
  /\ store[provider] # FullCache
  /\ store' = [store EXCEPT ![provider] = FullCache]
  /\ UNCHANGED <<token, currentUserInfos, hasVsls, isTokenInitialized,
                 chatProviders, nextSession, destroyed, viewProviders, tok, so>>
  /\ UNCHANGED sideVars

(***************************************************************************)
(* The fan-out operations initializeProviders, initializeUsersStateForAll, *)
(* initializeChannelsStateForAll and updateUserPrefsForAll: each takes the *)
(* registry's entries as they are at the call and awaits the session's     *)
(* operation on one entry after the other.  FanStart runs the call up to   *)
(* its first await, FanResume from one await to the next or to the end;    *)
(* the awaited operation resolves (ok) or rejects.                         *)
(***************************************************************************)
FanOps == {"initializeProvider", "initializeUsersState", "initializeChannelsState",
           "updateUserPrefs"}

IdleFan == [pc |-> "idle", op |-> "none", list |-> <<>>, idx |-> 0, invoked |-> <<>>]

\* A faulty variant of FanInvoke: the operation is invoked on every session
\* at once and the results awaited afterwards.
FanInvokeAll(rec, k) ==
  IF k > Len(rec.list)
    THEN [rec EXCEPT !.pc = "done", !.idx = 0]
    ELSE [rec EXCEPT !.pc = "await", !.idx = k,
                     !.invoked = [i \in 1..Len(rec.list) |-> rec.list[i].id]]

\* The loop body at position k: the session's operation is invoked and awaited.
FanInvoke(rec, k) ==
  IF k > Len(rec.list)
    THEN [rec EXCEPT !.pc = "done", !.idx = 0]
    ELSE [rec EXCEPT !.pc = "await", !.idx = k,
                     !.invoked = Append(@, rec.list[k].id)]

\* The awaited operation has settled: a rejection is not caught, so it ends
\* the loop and rejects the fan-out call.
FanSettled(rec, ok) ==
  IF ok THEN FanInvoke(rec, rec.idx + 1)
  ELSE [rec EXCEPT !.pc = "threw"]

FanStart(op) ==
  /\ fan.pc \in {"idle", "done", "threw"}
  /\ fan' = FanInvoke([IdleFan EXCEPT !.op = op, !.list = chatProviders], 1)
  /\ UNCHANGED <<lifeVars, dispatch, bridgeVars, probeVars>>

FanResume(ok) ==
  /\ fan.pc = "await"
  /\ fan' = FanSettled(fan, ok)
  /\ UNCHANGED <<lifeVars, dispatch, bridgeVars, probeVars>>

(***************************************************************************)
(* Per-provider dispatch: the session is looked up in the registry and the *)
(* operation delegated to it, or the absent result returned.               *)
(***************************************************************************)
DispatchOps == {"createIMChannel", "getUserPresence", "getCurrentUserPresence",
                "loadChannelHistory", "updateReadMarker", "sendMessage",
                "updateSelfPresence", "addReaction", "removeReaction",
                "fetchThreadReplies", "updateMessageReply", "updateMessages",
                "updateChannelMarked", "updatePresenceForUser", "getChannel",
                "fetchUsers", "fetchChannels", "getMessages", "getUnreadCount"}

\* A faulty variant of AbsentResult: undefined whatever the operation.
AbsentResultUniform(op) == "undefined"

\* What each operation returns when the provider has no session.
AbsentResult(op) ==
  CASE op = "getMessages" -> "emptyMap"
    [] op = "getUnreadCount" -> "zero"
    [] OTHER -> "undefined"

NoDispatch == [op |-> "none", provider |-> Undefined, result |-> "none", session |-> 0]

\* const cp = this.chatProviders.get(provider); return !!cp ? cp.op(...) : absent
DispatchResult(reg, op, provider) ==
  IF MapHas(reg, provider)
    THEN [op |-> op, provider |-> provider, result |-> "delegated",
          session |-> MapGet(reg, provider).id]
    ELSE [op |-> op, provider |-> provider, result |-> AbsentResult(op), session |-> 0]

Dispatch(op, provider) ==
  /\ dispatch' = DispatchResult(chatProviders, op, provider)
  /\ UNCHANGED <<lifeVars, fan, bridgeVars, probeVars>>

(***************************************************************************)
(* Manager.initializeVslsContactProvider.  VcStart runs the call up to the *)
(* await of register(), VcResume from there to the end.  An instance is    *)
(* [provider, isInitialized, selfContact, availableUsers]: the provider it *)
(* is bound to, its isInitialized flag, and how often notifySelfContact    *)
(* and notifyAvailableUsers were called on it.                             *)
(***************************************************************************)
IdleVc == [pc |-> "idle"]

\* store.getCurrentUser(provider) is truthy when the store holds the record.
HasCurrentUser(infos, provider) == \E i \in 1..Len(infos) : infos[i] = provider

\* A faulty variant of NonVslsProviders: vsls is not filtered out.
NonVslsProvidersUnfiltered(enabled) == enabled

\* Lines 171-173: the enabled providers other than vsls, in order.
NonVslsProviders(enabled) ==
  FilterIdx(enabled, {pos \in 1..Len(enabled) : enabled[pos] # "vsls"})

\* A faulty variant of IsNotAlreadyInit: the bridge is built again whatever
\* its state.
IsNotAlreadyInitUnchecked(field, insts) == TRUE

\* Lines 177-178.
IsNotAlreadyInit(field, insts) == field = 0 \/ ~insts[field].isInitialized

\* VslsContactProvider.register() and the Live Share host behind it: the
\* host initializes an instance some time after register() was called on it.
HostInitializes(b) ==
  /\ b \in 1..Len(bridges)
  /\ ~bridges[b].isInitialized
  /\ bridges' = [bridges EXCEPT ![b].isInitialized = TRUE]
  /\ UNCHANGED <<lifeVars, fan, dispatch, vslsContactProvider, vc, probeVars>>

VcStart(i) ==
  /\ vc[i].pc \in {"idle", "done", "threw"}
  /\ LET enabledProviders == GetEnabledProviders(currentUserInfos, hasVsls)
         nonVslsProviders == NonVslsProviders(enabledProviders)
     IN IF hasVsls /\ Len(nonVslsProviders) > 0
             /\ IsNotAlreadyInit(vslsContactProvider, bridges)
             /\ HasCurrentUser(currentUserInfos, nonVslsProviders[1])
          THEN /\ Len(bridges) < MaxBridges
               /\ bridges' = Append(bridges,
                               [provider |-> nonVslsProviders[1], isInitialized |-> FALSE,
                                selfContact |-> 0, availableUsers |-> 0])
               /\ vslsContactProvider' = Len(bridges) + 1
               /\ vc' = [vc EXCEPT ![i].pc = "register"]
          ELSE /\ vc' = [vc EXCEPT ![i].pc = "done"]
               /\ UNCHANGED <<bridges, vslsContactProvider>>
  /\ UNCHANGED <<lifeVars, fan, dispatch, probeVars>>

\* register() has settled: resolved (ok), the instance the field holds now
\* is notified; rejected, the call rejects.
VcResume(i, ok) ==
  /\ vc[i].pc = "register"
  /\ IF ok
       THEN /\ bridges' = [bridges EXCEPT
                             ![vslsContactProvider].selfContact = @ + 1,
                             ![vslsContactProvider].availableUsers = @ + 1]
            /\ vc' = [vc EXCEPT ![i].pc = "done"]
       ELSE /\ vc' = [vc EXCEPT ![i].pc = "threw"]
            /\ UNCHANGED bridges
  /\ UNCHANGED <<lifeVars, fan, dispatch, vslsContactProvider, probeVars>>

(***************************************************************************)
(* Synchronous calls that return a value: the last one made is kept with   *)
(* its argument and its result.                                            *)
(***************************************************************************)
NoQuery == [op |-> "none", arg |-> Undefined, result |-> <<>>]

\* getEnabledProviders(), as a call.
GetEnabledProvidersCall ==
  /\ query' = [op |-> "getEnabledProviders", arg |-> Undefined,
               result |-> GetEnabledProviders(currentUserInfos, hasVsls)]
  /\ UNCHANGED <<lifeVars, fan, dispatch, bridgeVars, vt>>

\* ChatProviderManager.getChannelLabels(): the session's own labels, in its
\* own order; a vsls session holds one channel, the others two.
SessionChannelLabels(entry) ==
  IF entry.provider = "vsls"
    THEN <<[session |-> entry.id, channel |-> "session"]>>
    ELSE <<[session |-> entry.id, channel |-> "general"],
           [session |-> entry.id, channel |-> "random"]>>

\* A faulty variant of LabelSelected: the provider argument is ignored.
LabelSelectedAll(provider, providerName) == TRUE

\* Line 312: !provider || provider === providerName
LabelSelected(provider, providerName) == ~Truthy(provider) \/ provider = providerName

RECURSIVE ChannelLabelsFrom(_, _, _, _)
\* The loop of lines 308-315 from position k of the registry's entries.
ChannelLabelsFrom(entries, k, provider, channelLabels) ==
  IF k > Len(entries) THEN channelLabels
  ELSE ChannelLabelsFrom(entries, k + 1, provider,
         IF LabelSelected(provider, entries[k].provider)
           THEN channelLabels \o SessionChannelLabels(entries[k])
           ELSE channelLabels)

GetChannelLabels(reg, provider) == ChannelLabelsFrom(reg, 1, provider, <<>>)

GetChannelLabelsCall(provider) ==
  /\ query' = [op |-> "getChannelLabels", arg |-> provider,
               result |-> GetChannelLabels(chatProviders, provider)]
  /\ UNCHANGED <<lifeVars, fan, dispatch, bridgeVars, vt>>

(***************************************************************************)
(* Manager.validateToken: ValidateTokenStart runs the call up to the await *)
(* of chatProvider.validateToken(), or to the throw of                     *)
(* instantiateChatProvider; ValidateTokenResume from there to the return.  *)
(***************************************************************************)
IdleVt == [pc |-> "idle", provider |-> Undefined, token |-> NoToken, result |-> "none"]

\* A faulty variant of ValidateTokenStart: the provider probed is registered.
ValidateTokenStartRegisters(provider, t) ==
  /\ vt.pc \in {"idle", "done", "threw"}
  /\ ~InstantiateThrows(provider)
  /\ vt' = [pc |-> "validate", provider |-> provider, token |-> t, result |-> "none"]
  /\ chatProviders' = MapSet(chatProviders, provider,
                             [provider |-> provider, id |-> 0, token |-> t])
  /\ UNCHANGED <<envVars, isTokenInitialized, nextSession, destroyed, viewProviders,
                 tok, so, fan, dispatch, bridgeVars, query>>

ValidateTokenStart(provider, t) ==
  /\ vt.pc \in {"idle", "done", "threw"}
  /\ vt' = IF InstantiateThrows(provider)
             THEN [pc |-> "threw", provider |-> provider, token |-> t,
                   result |-> ValidateToken(provider, t)]
             ELSE [pc |-> "validate", provider |-> provider, token |-> t,
                   result |-> "none"]
  /\ UNCHANGED <<lifeVars, fan, dispatch, bridgeVars, query>>

ValidateTokenResume ==
  /\ vt.pc = "validate"
  /\ vt' = [vt EXCEPT !.pc = "done", !.result = ValidateToken(vt.provider, vt.token)]
  /\ UNCHANGED <<lifeVars, fan, dispatch, bridgeVars, query>>

(***************************************************************************)
(* The state after construction, with the stores as the host left them.    *)
(***************************************************************************)
InitManager ==
  /\ isTokenInitialized = FALSE
  /\ chatProviders = <<>>
  /\ nextSession = 1
  /\ destroyed = [s \in SessionIds |-> 0]
  /\ viewProviders = <<>>
  /\ tok = [i \in TokCalls |-> IdleTok]
  /\ so = IdleSo
  /\ fan = IdleFan
  /\ dispatch = NoDispatch
  /\ bridges = <<>>
  /\ vslsContactProvider = 0
  /\ vc = [i \in VcCalls |-> IdleVc]
  /\ query = NoQuery
  /\ vt = IdleVt

\* The stores a session starts from: which tokens the keychain holds and
\* which current-user records the store kept from earlier sessions.
InitTokens ==
  {f \in [ProviderIds -> TokenStates] :
     /\ f["ghost"] = "invalid"
     /\ f["vsls"] # "invalid"
     /\ f["discord"] # "invalid"}

Init ==
  /\ token \in InitTokens
  /\ currentUserInfos \in InfoLists
  /\ hasVsls \in BOOLEAN
  /\ store = [p \in ProviderIds |-> EmptyCache]
  /\ InitManager

TokNext(calls) ==
  \/ \E i \in calls, np \in NewProviderArgs : TokStart(i, np)
  \/ \E i \in calls : TokResume(i)

\* One initializeToken call at a time, with signout and clearAll.
Next ==
  \/ TokNext({"t1"})
  \/ ClearAll
  \/ SignoutStart
  \/ SignoutResume

Spec == Init /\ [][Next]_vars

\* Overlapping initializeToken calls, with clearAll.
NextRace ==
  \/ TokNext(TokCalls)
  \/ ClearAll

SpecRace == Init /\ [][NextRace]_vars

\* The persistent store's caches under clearAll and clearOldWorkspace.
NextStore ==
  \/ TokNext({"t1"})
  \/ ClearAll
  \/ \E p \in ProviderIds : ClearOldWorkspace(p)
  \/ \E p \in ProviderIds : SessionFillsStore(p)

SpecStore == Init /\ [][NextStore]_vars

\* The user is signed in to slack and discord.
InitSignedIn ==
  /\ Init
  /\ currentUserInfos = <<"slack", "discord">>
  /\ token["slack"] = "valid"
  /\ token["discord"] = "valid"

\* A fan-out call over the registry, with initializeToken and clearAll.
NextFan ==
  \/ TokNext({"t1"})
  \/ ClearAll
  \/ \E op \in FanOps : FanStart(op)
  \/ \E ok \in BOOLEAN : FanResume(ok)

SpecFan == InitSignedIn /\ [][NextFan]_vars

\* The user is signed in to slack and discord and Live Share is installed.
InitAllIn ==
  /\ InitSignedIn
  /\ hasVsls
  /\ token["vsls"] = "valid"

\* Per-provider dispatch, with initializeToken and clearAll.
NextDispatch ==
  \/ TokNext({"t1"})
  \/ ClearAll
  \/ \E op \in DispatchOps, p \in ProviderIds : Dispatch(op, p)

SpecDispatch == InitAllIn /\ [][NextDispatch]_vars

\* Overlapping initializeVslsContactProvider calls and the Live Share host.
NextVsls ==
  \/ \E i \in VcCalls : VcStart(i)
  \/ \E i \in VcCalls, ok \in BOOLEAN : VcResume(i, ok)
  \/ \E b \in 1..MaxBridges : HostInitializes(b)

SpecVsls == Init /\ [][NextVsls]_vars

\* Current-user records in any number and order, an id possibly several times.
MaxInfos == 3
AnyInfoLists == UNION {[1..k -> ProviderIds] : k \in 0..MaxInfos}

InitEnabled ==
  /\ token = [p \in ProviderIds |-> NoToken]
  /\ currentUserInfos \in AnyInfoLists
  /\ hasVsls \in BOOLEAN
  /\ store = [p \in ProviderIds |-> EmptyCache]
  /\ InitManager

\* getEnabledProviders over any list of current-user records.
NextEnabled == GetEnabledProvidersCall

SpecEnabled == InitEnabled /\ [][NextEnabled]_vars

\* getChannelLabels, with initializeToken and clearAll.
NextLabels ==
  \/ TokNext({"t1"})
  \/ ClearAll
  \/ \E p \in ProviderIds \cup {Undefined} : GetChannelLabelsCall(p)

SpecLabels == Init /\ [][NextLabels]_vars

\* validateToken, with initializeToken and clearAll.
NextProbe ==
  \/ TokNext({"t1"})
  \/ ClearAll
  \/ \E p \in ProviderIds, t \in TokenStates : ValidateTokenStart(p, t)
  \/ ValidateTokenResume

SpecProbe == InitAllIn /\ [][NextProbe]_vars

(***************************************************************************)
(* Properties of the registry and of the token lifecycle.                  *)
(***************************************************************************)
HasSession(p) == MapHas(chatProviders, p)
EnabledNow(p) ==
  LET e == GetEnabledProviders(currentUserInfos, hasVsls)
  IN \E i \in 1..Len(e) : e[i] = p
NoCallInFlight == tok["t1"].pc # "getToken" /\ tok["t2"].pc # "getToken"
                  /\ so.pc # "clearToken"

\* C1: after any sequence of initializeToken, signout and clearAll calls, a
\* session is registered for a provider if and only if that provider is
\* enabled and holds a stored credential the backend accepts (stated for the
\* providers the store lists as enabled, once initializeToken has completed).
C1_SessionIffEnabledAndValid ==
  (NoCallInFlight /\ tok["t1"].pc = "done") =>
    \A p \in ProviderIds :
      EnabledNow(p) =>
        (HasSession(p) <=> (EnabledNow(p) /\ BackendAccepts(token[p])))

\* C2: when initializeToken has finished or thrown, every session in the
\* registry (of a provider that takes a credential) holds a credential whose
\* validation succeeds.
C2_SessionOnlyAfterValidation ==
  tok["t1"].pc \in {"done", "threw"} =>
    \A i \in 1..Len(chatProviders) :
      chatProviders[i].provider # "vsls" =>
        ValidateToken(chatProviders[i].provider, chatProviders[i].token) = "currentUser"

\* C3: a call of initializeToken that repeats a completed call (same
\* newProvider, stores and sessions undisturbed since that call began)
\* changes neither the registry nor isTokenInitialized in any of its steps,
\* constructs no session, and does not throw.
C3_InitializeTokenIdempotent ==
  [][\A i \in TokCalls :
       (tok[i].stable /\ tok[i].pc = "getToken" /\ tok'[i] # tok[i] /\ tok'[i].stable)
         => /\ chatProviders' = chatProviders
            /\ nextSession' = nextSession
            /\ isTokenInitialized' = isTokenInitialized
            /\ tok'[i].pc # "threw"]_vars

\* A repeated call has run to completion over a registry of two sessions.
C3_Witness ==
  /\ tok["t1"].pc = "done" /\ tok["t1"].stable
  /\ Len(chatProviders) >= 2
  /\ isTokenInitialized

\* C4: under any interleaving of initializeToken calls, a session in the
\* registry is never replaced; a session is constructed only for a provider
\* that has none and is then the one registered for it; sessions leave the
\* registry only by clearAll; and the registry never holds two sessions of one
\* provider.
C4_NoSessionReplaced ==
  /\ [][/\ \A p \in ProviderIds :
             (MapHas(chatProviders, p) /\ MapHas(chatProviders', p))
               => MapGet(chatProviders', p) = MapGet(chatProviders, p)
        /\ nextSession' # nextSession =>
             \E p \in ProviderIds :
               /\ ~MapHas(chatProviders, p)
               /\ MapHas(chatProviders', p)
               /\ chatProviders' = Append(chatProviders, MapGet(chatProviders', p))
               /\ MapGet(chatProviders', p).id = nextSession
               /\ nextSession' = nextSession + 1
        /\ (\E p \in ProviderIds : MapHas(chatProviders, p) /\ ~MapHas(chatProviders', p))
             => ClearAll]_vars
  /\ [](\A a, b \in 1..Len(chatProviders) :
          chatProviders[a].provider = chatProviders[b].provider => a = b)

\* A call is suspended at getToken, holding a token, for a provider that
\* another call has registered meanwhile.
C4_Witness ==
  /\ tok["t1"].pc = "done"
  /\ tok["t2"].pc = "getToken"
  /\ HasToken(tok["t2"].tokenRead)
  /\ tok["t2"].list[tok["t2"].idx] = "slack"
  /\ MapHas(chatProviders, "slack")
  /\ nextSession = 2

\* C5: clearAll leaves no session but that of vsls in the registry; the vsls
\* session, if registered, stays registered as the same object, with destroy
\* never called on it and its stored state as before; isTokenInitialized is
\* false.
C5_ClearAllSparesVsls ==
  [][ClearAll =>
       /\ \A i \in 1..Len(chatProviders') : chatProviders'[i].provider = "vsls"
       /\ MapHas(chatProviders, "vsls") =>
            /\ MapHas(chatProviders', "vsls")
            /\ MapGet(chatProviders', "vsls") = MapGet(chatProviders, "vsls")
            /\ destroyed'[MapGet(chatProviders', "vsls").id] = 0
            /\ store'["vsls"] = store["vsls"]
       /\ isTokenInitialized' = FALSE]_vars

\* clearAll has destroyed a session and left the vsls session, whose stored
\* state is populated, alone in the registry.
C5_Witness ==
  /\ MapKeys(chatProviders) = <<"vsls">>
  /\ store["vsls"] = FullCache
  /\ \E s \in SessionIds : destroyed[s] = 1
  /\ ~isTokenInitialized

\* C6: a signout call that cleared at least one stored credential has
\* executed RESET_STORE exactly once when it returns, and one that cleared
\* none has not executed it.
C6_ResetIffCredentialCleared ==
  so.pc = "done" => so.fired = (IF so.clearedAny THEN 1 ELSE 0)

(***************************************************************************)
(* Properties of the fan-out, of dispatch and of the presence bridge.      *)
(***************************************************************************)
\* C7: when a fan-out call has returned or thrown, the session operation has
\* been invoked on every session it iterates over, also on those that follow
\* a session whose operation failed.
C7_FanOutIsolatesFailures ==
  fan.pc \in {"done", "threw"} =>
    \A k \in 1..Len(fan.list) :
      \E j \in 1..Len(fan.invoked) : fan.invoked[j] = fan.list[k].id

\* C8: a dispatch to a provider without a session returns the absent result
\* (0 for getUnreadCount, the empty map for getMessages, undefined for the
\* others), reaches no session, and leaves the registry and
\* isTokenInitialized as they were.
C8_DispatchToAbsentProvider ==
  [][(dispatch' # dispatch /\ ~MapHas(chatProviders, dispatch'.provider)) =>
       /\ dispatch'.session = 0
       /\ dispatch'.result = (IF dispatch'.op = "getUnreadCount" THEN "zero"
                              ELSE IF dispatch'.op = "getMessages" THEN "emptyMap"
                              ELSE "undefined")
       /\ chatProviders' = chatProviders
       /\ isTokenInitialized' = isTokenInitialized]_vars

\* getUnreadCount was dispatched to a provider without a session while other
\* providers hold sessions.
C8_Witness ==
  /\ dispatch.op = "getUnreadCount"
  /\ dispatch.provider = "ghost"
  /\ dispatch.result = "zero"
  /\ Len(chatProviders) = 2

\* The calls of notifySelfContact / notifyAvailableUsers over all instances.
SelfContacts(insts) ==
  LET sum[k \in 0..Len(insts)] == IF k = 0 THEN 0 ELSE sum[k - 1] + insts[k].selfContact
  IN sum[Len(insts)]
AvailableUsers(insts) ==
  LET sum[k \in 0..Len(insts)] ==
        IF k = 0 THEN 0 ELSE sum[k - 1] + insts[k].availableUsers
  IN sum[Len(insts)]

\* C9: under any interleaving of initializeVslsContactProvider calls at most
\* one VslsContactProvider is ever constructed, and notifySelfContact and
\* notifyAvailableUsers are each called at most once.
C9_AtMostOneBridge ==
  /\ Len(bridges) <= 1
  /\ SelfContacts(bridges) <= 1
  /\ AvailableUsers(bridges) <= 1

\* The instance the Manager holds is initialized; besides, no call is in flight.
HeldInitialized ==
  /\ vslsContactProvider # 0
  /\ bridges[vslsContactProvider].isInitialized

BridgeInitialized ==
  /\ HeldInitialized
  /\ \A i \in VcCalls : vc[i].pc # "register"

\* C10: once the instance the Manager holds is initialized, no step
\* constructs an instance, replaces the one held or calls register(); and
\* once, besides, no initializeVslsContactProvider call is in flight, no step
\* calls notifySelfContact or notifyAvailableUsers either.
C10_RebindIsNoOp ==
  [][/\ HeldInitialized =>
          /\ Len(bridges') = Len(bridges)
          /\ vslsContactProvider' = vslsContactProvider
          /\ \A i \in VcCalls : vc'[i].pc = "register" => vc[i].pc = "register"
     /\ BridgeInitialized =>
          \A b \in 1..Len(bridges) :
            /\ bridges'[b].selfContact = bridges[b].selfContact
            /\ bridges'[b].availableUsers = bridges[b].availableUsers]_vars

\* Both calls have returned, the second finding the bridge of the first
\* initialized.
C10_Witness ==
  /\ BridgeInitialized
  /\ vc["v1"].pc = "done" /\ vc["v2"].pc = "done"
  /\ Len(bridges) = 1
  /\ bridges[1].selfContact = 1

(***************************************************************************)
(* Properties of the presence bridge's binding and of the queries.         *)
(***************************************************************************)
\* C11: whenever a VslsContactProvider is constructed, the vsls extension is
\* available and the instance is bound to the first provider of the enabled
\* list that is not vsls: never to vsls, never to a later provider.
C11_BridgeBoundToFirstNonVsls ==
  [][Len(bridges') > Len(bridges) =>
       LET enabled == GetEnabledProviders(currentUserInfos, hasVsls)
           b == bridges'[Len(bridges')]
       IN /\ hasVsls
          /\ b.provider # "vsls"
          /\ \E i \in 1..Len(enabled) :
               /\ enabled[i] = b.provider
               /\ \A j \in 1..(i - 1) : enabled[j] = "vsls"]_vars

\* A bridge was constructed where vsls comes first in the enabled list: it is
\* bound to slack, the provider after it.
C11_Witness ==
  /\ hasVsls
  /\ currentUserInfos = <<"vsls", "slack">>
  /\ Len(bridges) >= 1
  /\ bridges[1].provider = "slack"

\* C12: getEnabledProviders returns every provider that has a current-user
\* record, and vsls when the extension is detected, each exactly once and in
\* the order of first occurrence, whatever repetitions its sources hold.
C12_EnabledProvidersDeduplicated ==
  query.op = "getEnabledProviders" =>
    LET r == query.result
        src == IF hasVsls THEN currentUserInfos \o <<"vsls">> ELSE currentUserInfos
        First(x) == CHOOSE i \in 1..Len(src) :
                      src[i] = x /\ \A j \in 1..(i - 1) : src[j] # x
    IN /\ \A a, b \in 1..Len(r) : r[a] = r[b] => a = b
       /\ {r[a] : a \in 1..Len(r)} =
            {currentUserInfos[i] : i \in 1..Len(currentUserInfos)}
              \cup (IF hasVsls THEN {"vsls"} ELSE {})
       /\ \A a, b \in 1..Len(r) : a < b => First(r[a]) < First(r[b])

\* getEnabledProviders was called where slack is recorded twice and vsls
\* comes from both sources.
C12_Witness ==
  /\ query.op = "getEnabledProviders"
  /\ hasVsls
  /\ currentUserInfos = <<"slack", "vsls", "slack">>
  /\ query.result = <<"slack", "vsls">>

\* The registered sessions in the order of their registration: identities
\* are given in that order.
ByRegistration(reg) ==
  LET entries == {reg[i] : i \in 1..Len(reg)}
  IN [k \in 1..Len(reg) |->
        CHOOSE e \in entries : Cardinality({f \in entries : f.id < e.id}) = k - 1]

\* The labels of the sessions of a list, one session's after the other's.
AllLabels(sessions) ==
  LET cat[k \in 0..Len(sessions)] ==
        IF k = 0 THEN <<>> ELSE cat[k - 1] \o SessionChannelLabels(sessions[k])
  IN cat[Len(sessions)]

\* C13: getChannelLabels without a provider returns the sessions' own labels
\* concatenated in the order the sessions were registered, also after
\* sessions were removed by clearAll and registered again; with a provider it
\* returns that provider's session's labels, or the empty list when the
\* provider has no session.
C13_ChannelLabelsInRegistrationOrder ==
  [][(query' # query /\ query'.op = "getChannelLabels") =>
       query'.result =
         IF query'.arg = Undefined THEN AllLabels(ByRegistration(chatProviders))
         ELSE IF MapHas(chatProviders, query'.arg)
           THEN SessionChannelLabels(MapGet(chatProviders, query'.arg))
         ELSE <<>>]_vars

\* All labels were asked for after clearAll removed the slack session and
\* initializeToken registered a new one behind the vsls session.
C13_Witness ==
  /\ query.op = "getChannelLabels"
  /\ query.arg = Undefined
  /\ query.result = <<[session |-> 2, channel |-> "session"],
                      [session |-> 3, channel |-> "general"],
                      [session |-> 3, channel |-> "random"]>>

\* C14: clearOldWorkspace(p) empties p's stored users and channels and unsets
\* its last channel, and changes nothing else: the registry, the sessions'
\* destroy() counts, isTokenInitialized, the tokens and the stored state of
\* every other provider are as before.
C14_ClearOldWorkspaceFrame ==
  [][\A p \in ProviderIds :
       ClearOldWorkspace(p) =>
         /\ ~store'[p].users /\ ~store'[p].channels /\ ~store'[p].lastChannelId
         /\ \A q \in ProviderIds \ {p} : store'[q] = store[q]
         /\ chatProviders' = chatProviders
         /\ destroyed' = destroyed
         /\ isTokenInitialized' = isTokenInitialized
         /\ token' = token]_vars

\* clearOldWorkspace("slack") was the last call: slack's session is still
\* registered and alive, discord's stored state is still populated.
C14_Witness ==
  /\ query.op = "clearOldWorkspace" /\ query.arg = "slack"
  /\ store["slack"] = EmptyCache
  /\ store["discord"] = FullCache
  /\ MapHas(chatProviders, "slack")
  /\ destroyed[MapGet(chatProviders, "slack").id] = 0
  /\ isTokenInitialized

(***************************************************************************)
(* Properties of teardown, of the fan-out under clearAll, and of signout.  *)
(***************************************************************************)
\* The session of identity s is in the registry.
Registered(reg, s) == \E i \in 1..Len(reg) : reg[i].id = s

\* C15: across initializeToken, signout and clearAll calls, every session
\* that has left the registry has had destroy() called on it exactly once,
\* no session is destroyed twice, and the step in which a session leaves the
\* registry is the step of its destroy(): it is never removed first.
C15_DestroyedOnceBeforeRemoval ==
  /\ [](\A s \in SessionIds :
          /\ destroyed[s] <= 1
          /\ (s < nextSession /\ ~Registered(chatProviders, s)) => destroyed[s] = 1)
  /\ [][\A s \in SessionIds :
          (Registered(chatProviders, s) /\ ~Registered(chatProviders', s))
            => (destroyed[s] = 0 /\ destroyed'[s] = 1)]_vars

\* clearAll has destroyed and removed the first session, initializeToken has
\* registered another session since, which is alive, and a signout has
\* cleared a credential.
C15_Witness ==
  /\ so.pc = "done" /\ so.fired = 1
  /\ destroyed[1] = 1
  /\ ~Registered(chatProviders, 1)
  /\ \E i \in 1..Len(chatProviders) :
       /\ chatProviders[i].provider # "vsls"
       /\ chatProviders[i].id = 3
       /\ destroyed[3] = 0

\* C16: a fan-out call never invokes the session operation on a session that
\* clearAll has destroyed: each invocation is on a session on which destroy()
\* was not called.
C16_FanOutSkipsDestroyedSessions ==
  [][(fan' # fan /\ fan'.pc = "await") =>
       destroyed[fan'.list[fan'.idx].id] = 0]_vars

\* The per-session operations of the fan-out call that were invoked and have
\* not settled: those before position idx have.
FanInFlight == IF fan.pc = "await" THEN Len(fan.invoked) - (fan.idx - 1) ELSE 0

\* C17: within a fan-out call at most one per-session operation is in flight;
\* the operations are invoked on the sessions one after the other in the
\* order of their registration, each after the previous one has settled.
C17_FanOutOneAtATime ==
  /\ FanInFlight <= 1
  /\ Len(fan.invoked) <= Len(fan.list)
  /\ \A k \in 1..Len(fan.invoked) : fan.invoked[k] = fan.list[k].id
  /\ \A a, b \in 1..Len(fan.list) : a < b => fan.list[a].id < fan.list[b].id

\* The call awaits the operation on the second session, that on the first
\* having resolved.
C17_Witness ==
  /\ fan.pc = "await"
  /\ fan.idx = 2
  /\ fan.invoked = <<1, 2>>
  /\ Len(fan.list) = 2

\* C18: signout clears the stored credential of the provider of every session
\* registered when it was called, vsls excepted, and never that of vsls; none
\* of its steps adds, removes or destroys a session or changes
\* isTokenInitialized.
C18_SignoutFrame ==
  [][so' # so =>
       /\ chatProviders' = chatProviders
       /\ nextSession' = nextSession
       /\ destroyed' = destroyed
       /\ isTokenInitialized' = isTokenInitialized
       /\ token'["vsls"] = token["vsls"]
       /\ \A p \in ProviderIds :
            token'[p] # token[p] =>
              /\ token'[p] = NoToken
              /\ \E k \in 1..Len(so.list) : so.list[k] = p
       /\ so'.pc = "done" =>
            LET called == IF so.pc = "clearToken" THEN so.list
                          ELSE MapKeys(chatProviders)
            IN \A k \in 1..Len(called) :
                 called[k] # "vsls" => token'[called[k]] = NoToken]_vars

\* A signout that cleared slack's credential has returned: the sessions of
\* slack and vsls are registered and alive, and the token of vsls is stored.
C18_Witness ==
  /\ so.pc = "done" /\ so.fired = 1
  /\ MapHas(chatProviders, "slack") /\ token["slack"] = NoToken
  /\ MapHas(chatProviders, "vsls") /\ token["vsls"] = "valid"
  /\ \A s \in SessionIds : destroyed[s] = 0
  /\ isTokenInitialized

\* C19: no step of validateToken, whether it ends with a current user, an
\* authentication failure or the throw for an unsupported provider, adds or
\* removes a session, constructs or destroys one, or changes
\* isTokenInitialized.
C19_ValidateTokenIsPureProbe ==
  [][vt' # vt =>
       /\ chatProviders' = chatProviders
       /\ nextSession' = nextSession
       /\ destroyed' = destroyed
       /\ isTokenInitialized' = isTokenInitialized]_vars

\* validateToken has returned a current user for slack, which has no
\* session, while another provider has one.
C19_Witness ==
  /\ vt.pc = "done" /\ vt.provider = "slack" /\ vt.result = "currentUser"
  /\ ~MapHas(chatProviders, "slack")
  /\ Len(chatProviders) >= 1

\* C20: in every state reached by interleaved initializeToken and clearAll
\* calls, isTokenInitialized implies that a session is registered.
C20_InitializedImpliesSession ==
  isTokenInitialized => Len(chatProviders) >= 1

\* isTokenInitialized is set and one session registered after clearAll
\* destroyed an earlier one, while an initializeToken call is suspended at
\* getToken.
C20_Witness ==
  /\ isTokenInitialized
  /\ \E s \in SessionIds : destroyed[s] = 1
  /\ tok["t2"].pc = "getToken"
  /\ Len(chatProviders) = 1

====
